---- MODULE Spec2Model ----
(***************************************************************************)
(* A model of scripts/run_verifier.py: the verification harness that       *)
(* estimates realised statistics from a price history, prices an option    *)
(* analytically, drives the external risk_sim engine through a subprocess  *)
(* and compares the engine's figures with the references.                  *)
(*                                                                         *)
(* Numbers.  A Python float is a record [k, n, d]: k = "num" is the        *)
(* rational n/d, k = "nan" is not-a-number, k = "inf" is +infinity and     *)
(* k = "fault" marks an expression whose evaluation raises (the exception  *)
(* is named by the operator that produces it).  Close prices are powers of *)
(* two, so that a log return is an integer multiple of ln 2; returns,      *)
(* losses and VaR figures are counted in that unit.                        *)
(*                                                                         *)
(* Text.  A captured stream is a sequence of one-character strings.        *)
(***************************************************************************)
EXTENDS Integers, Sequences, FiniteSets, TLC

VARIABLES
    pc,             \* position of main(): download, stats, option, var, sweep, complete, done, failed
    args,           \* the argparse namespace (parse_args)
    market,         \* what yf.download will return: the raw rows
    history,        \* the cleaned price history (close column)
    spot, strike,   \* latest close, option strike
    mu, sigma,      \* realised drift and volatility
    option_payload, \* the base option request
    calls,          \* the engine processes started so far, in order
    parses,         \* how many times json.loads has run
    last,           \* the last run_risk_sim call: what it saw and what it did
    mc,             \* option check: price, standard error, analytic, diff, rel_err
    vr,             \* VaR check: simulated, empirical, rel_gap
    sweep,          \* the sweep points printed so far
    i,              \* the sweep loop index
    sections,       \* the report sections printed so far
    err,            \* the exception that ended the run, if any
    fin, fout       \* a pure function's input and its result (function specifications)

vars == <<pc, args, market, history, spot, strike, mu, sigma, option_payload,
          calls, parses, last, mc, vr, sweep, i, sections, err, fin, fout>>

mainVars == <<pc, args, market, history, spot, strike, mu, sigma, option_payload,
              calls, parses, last, mc, vr, sweep, i, sections, err>>

----------------------------------------------------------------------------
(* Bounds of the model *)

MaxRows == 3        \* rows a download returns
MaxRuns == 3        \* --stress-runs
MaxSample == 5      \* size of a loss sample drawn directly

(* Constants of the program *)

TradingDays == 252
OptionSeed == 42
VarSeed == 1337
SweepBaseSeed == 100
Steps == 252
Block == 4096

----------------------------------------------------------------------------
(* Floats *)

Num(x) == [k |-> "num", n |-> x, d |-> 1]
Ratio(a, b) == [k |-> "num", n |-> a, d |-> b]
NaN == [k |-> "nan", n |-> 0, d |-> 1]
Inf == [k |-> "inf", n |-> 0, d |-> 1]
Fault == [k |-> "fault", n |-> 0, d |-> 1]
Unset == [k |-> "unset", n |-> 0, d |-> 1]

IsNum(x) == x.k = "num"
IsNaN(x) == x.k = "nan"
IsZero(x) == x.k = "num" /\ x.n = 0

\* a - b for integer-valued floats; not-a-number propagates
FSub(a, b) ==
    IF IsNaN(a) \/ IsNaN(b) THEN NaN
    ELSE Num(a.n - b.n)

\* a / b as Python evaluates it on floats: a zero divisor raises ZeroDivisionError
FDiv(a, b) ==
    IF IsNum(b) /\ b.n = 0 THEN Fault
    ELSE IF IsNaN(a) \/ IsNaN(b) THEN NaN
    ELSE Ratio(a.n, b.n)

Max(a, b) == IF a >= b THEN a ELSE b

RECURSIVE Log2(_)
Log2(p) == IF p <= 1 THEN 0 ELSE 1 + Log2(p \div 2)

RECURSIVE Sum(_)
Sum(s) == IF s = <<>> THEN 0 ELSE Head(s) + Sum(Tail(s))

----------------------------------------------------------------------------
(* Text *)

NoText == <<>>
Boom == <<"b", "o", "o", "m">>
Usage == <<"u", "s", "e">>

\* whether `part` occurs in `text` as a contiguous run
Contains(text, part) ==
    \E a \in 1..(Len(text) + 1) :
        /\ a + Len(part) - 1 <= Len(text)
        /\ SubSeq(text, a, a + Len(part) - 1) = part

----------------------------------------------------------------------------
(* black_scholes_price *)

\* plausible slip: the payoff without its floor at zero
IntrinsicUnfloored(spot_, strike_, is_call) ==
    IF is_call THEN spot_ - strike_ ELSE strike_ - spot_

\* line 20: max(0.0, spot - strike) if is_call else max(0.0, strike - spot)
Intrinsic(spot_, strike_, is_call) ==
    IF is_call THEN Max(0, spot_ - strike_) ELSE Max(0, strike_ - spot_)

\* line 19: maturity <= 0 or vol <= 0 (a comparison with not-a-number is false)
Degenerate(vol, maturity) ==
    maturity <= 0 \/ (IsNum(vol) /\ vol.n <= 0)

\* The closed form itself (lines 22-35) is not computed: `closed` stands for
\* the value the erf/exp/log arithmetic yields on finite inputs.  What is kept of
\* it: spot / strike raises on a zero strike, math.log raises on a ratio <= 0,
\* and a not-a-number volatility gives not-a-number.
black_scholes_price(spot_, strike_, rate, dividend, vol, maturity, is_call, closed) ==
    IF Degenerate(vol, maturity) THEN Num(Intrinsic(spot_, strike_, is_call))
    ELSE IF strike_ = 0 THEN Fault
    ELSE IF spot_ * strike_ <= 0 THEN Fault
    ELSE IF IsNaN(vol) THEN NaN
    ELSE closed

\* values the closed form can take on finite inputs (0 when both normal
\* CDF terms underflow)
ClosedFormValues == {Num(0), Num(3)}

----------------------------------------------------------------------------
(* realised_statistics *)

\* line 74: np.log(close / close.shift(1)).dropna(), in units of ln 2
LogReturns(close) ==
    [j \in 1..(Len(close) - 1) |-> Log2(close[j + 1]) - Log2(close[j])]

SumSq(s) == Sum([j \in 1..Len(s) |-> s[j] * s[j]])

\* lines 75-77.  mu is mean * 252: the mean of an empty series is not-a-number.
\* sigma is std(ddof=1) * sqrt(252): the sample deviation of fewer than two
\* returns is not-a-number.  sigma is carried by its square, which has the
\* same sign and the same zero.
realised_statistics(close) ==
    LET r == LogReturns(close)
        n == Len(r)
    IN  [ mu    |-> IF n = 0 THEN NaN ELSE Ratio(TradingDays * Sum(r), n),
          sigma |-> IF n <= 1 THEN NaN
                    ELSE Ratio(TradingDays * (n * SumSq(r) - Sum(r) * Sum(r)),
                               n * (n - 1)) ]

----------------------------------------------------------------------------
(* compare_var *)

RECURSIVE Insert(_, _)
Insert(x, s) ==
    IF s = <<>> THEN <<x>>
    ELSE IF x <= Head(s) THEN <<x>> \o s
    ELSE <<Head(s)>> \o Insert(x, Tail(s))

RECURSIVE Sorted(_)
Sorted(s) == IF s = <<>> THEN <<>> ELSE Insert(Head(s), Sorted(Tail(s)))

\* plausible slip: method="lower", the rank rounded down
LowerIndex(n, p) == ((n - 1) * p.n) \div p.d

\* np.quantile(..., method="higher"): the 0-based index ceil((n - 1) * p)
HigherIndex(n, p) == ((n - 1) * p.n + p.d - 1) \div p.d

\* line 96: np.quantile raises ValueError for a percentile outside [0, 1]
quantile_higher(losses, p) ==
    IF p.n < 0 \/ p.n > p.d THEN Fault
    ELSE Num(Sorted(losses)[HigherIndex(Len(losses), p) + 1])

\* plausible slip: the division without its guard
RelGapUnguarded(diff, empirical_var) == FDiv(diff, empirical_var)

\* line 98: diff / empirical_var if empirical_var != 0 else float("inf")
RelGap(diff, empirical_var) ==
    IF ~IsZero(empirical_var) THEN FDiv(diff, empirical_var) ELSE Inf

\* line 135: diff / analytic if analytic != 0 else float("inf")
RelErr(diff, analytic) ==
    IF ~IsZero(analytic) THEN FDiv(diff, analytic) ELSE Inf

\* lines 93-99
compare_var(empirical_losses, percentile, simulated) ==
    IF Len(empirical_losses) = 0 THEN [empirical_var |-> NaN, rel |-> NaN]
    ELSE LET empirical_var == quantile_higher(empirical_losses, percentile)
         IN  IF empirical_var.k = "fault"
             THEN [empirical_var |-> Fault, rel |-> Fault]
             ELSE [empirical_var |-> empirical_var,
                   rel |-> RelGap(FSub(simulated, empirical_var), empirical_var)]

----------------------------------------------------------------------------
(* The engine's output and json.loads *)

JPrice == <<"{", "result", ":", "{", "price", ":", "5", "}", "}">>
JPriceErr == <<"{", "result", ":", "{", "price", ":", "5", ",",
               "standardError", ":", "1", "}", "}">>
JVaR == <<"{", "result", ":", "{", "valueAtRisk", ":", "7", "}", "}">>
JNoField == <<"{", "result", ":", "{", "}", "}">>
JEmptyObj == <<"{", "}">>
JTruncated == <<"{", "result", ":", "{", "price", ":">>

NumberOf == [t \in {"0", "1", "5", "7"} |->
                CASE t = "0" -> 0 [] t = "1" -> 1 [] t = "5" -> 5 [] t = "7" -> 7]

EmptyObject == [key \in {} |-> 0]
BadJson == [ok |-> FALSE, has_result |-> FALSE, result |-> EmptyObject]

\* the members of an object: key : number { , key : number }
RECURSIVE ParseMembers(_)
ParseMembers(t) ==
    IF Len(t) < 3 \/ t[2] # ":" \/ t[3] \notin DOMAIN NumberOf
    THEN [ok |-> FALSE, obj |-> EmptyObject]
    ELSE IF Len(t) = 3 THEN [ok |-> TRUE, obj |-> (t[1] :> NumberOf[t[3]])]
    ELSE IF t[4] # ","
    THEN [ok |-> FALSE, obj |-> EmptyObject]
    ELSE LET rest == ParseMembers(SubSeq(t, 5, Len(t)))
         IN  [ok |-> rest.ok, obj |-> rest.obj @@ (t[1] :> NumberOf[t[3]])]

\* line 90: json.loads on the documents the engine writes: an object that is
\* empty or holds "result", itself an object of numbers.  Anything else among
\* the engine's texts (empty output, plain text, a truncated document) raises
\* json.JSONDecodeError.
json_loads(text) ==
    IF Len(text) < 2 \/ text[1] # "{" \/ text[Len(text)] # "}" THEN BadJson
    ELSE LET inner == SubSeq(text, 2, Len(text) - 1)
         IN  IF inner = <<>>
             THEN [ok |-> TRUE, has_result |-> FALSE, result |-> EmptyObject]
             ELSE IF Len(inner) < 4 \/ inner[1] # "result" \/ inner[2] # ":"
                     \/ inner[3] # "{" \/ inner[Len(inner)] # "}"
             THEN BadJson
             ELSE LET members == SubSeq(inner, 4, Len(inner) - 1)
                  IN  IF members = <<>>
                      THEN [ok |-> TRUE, has_result |-> TRUE, result |-> EmptyObject]
                      ELSE LET m == ParseMembers(members)
                           IN  IF m.ok
                               THEN [ok |-> TRUE, has_result |-> TRUE, result |-> m.obj]
                               ELSE BadJson

----------------------------------------------------------------------------
(* run_risk_sim *)

\* what subprocess.run can hand back: the engine is outside the program
ProcResults ==
    [returncode : {0}, stderr : {NoText},
     stdout : {JPrice, JPriceErr, JVaR, JNoField, JEmptyObj, JTruncated, NoText}]
    \cup
    [returncode : {1}, stderr : {NoText, Boom}, stdout : {NoText, Usage, JPrice}]

\* plausible slip: the check left out
BinaryNeverMissing(binary_exists) == FALSE

\* line 81: not binary.exists()
BinaryMissing(binary_exists) == ~binary_exists

\* plausible slip: only a negative status (a signal) counted as failure
ProcessKilled(returncode) == returncode < 0

\* line 88: result.returncode != 0
ProcessFailed(returncode) == returncode # 0

\* plausible slip: the output stream reported in place of the error stream
FailureTextStdout(stderr, stdout) == stdout

\* line 89: result.stderr or result.stdout
FailureText(stderr, stdout) == IF stderr # NoText THEN stderr ELSE stdout

\* lines 80-90.  `proc` is the completed process subprocess.run returns when
\* it is reached.
run_risk_sim(binary_exists, command, payload, proc) ==
    LET cli == [command |-> command, args |-> payload, format |-> "json"]
        base == [cli |-> cli, started |-> FALSE, parsed |-> FALSE,
                 raised |-> "none", message |-> NoText, doc |-> BadJson]
    IN  IF BinaryMissing(binary_exists)
        THEN [base EXCEPT !.raised = "SystemExit",
                          !.message = <<"risk_sim binary not found">>]
        ELSE IF ProcessFailed(proc.returncode)
        THEN [base EXCEPT !.started = TRUE, !.raised = "RuntimeError",
                          !.message = <<"risk_sim failed (", command, "): ">>
                                      \o FailureText(proc.stderr, proc.stdout)]
        ELSE LET doc == json_loads(proc.stdout)
             IN  IF doc.ok
                 THEN [base EXCEPT !.started = TRUE, !.parsed = TRUE, !.doc = doc]
                 ELSE [base EXCEPT !.started = TRUE, !.parsed = TRUE,
                                   !.raised = "JSONDecodeError"]

\* plausible slip: a required field read with a default
FieldOrZero(doc, key) ==
    IF ~doc.has_result THEN [raised |-> "KeyError", val |-> 0]
    ELSE IF key \in DOMAIN doc.result THEN [raised |-> "none", val |-> doc.result[key]]
    ELSE [raised |-> "none", val |-> 0]

\* lines 131, 159, 176: float(response["result"][key]); a missing key raises
\* KeyError
RequiredField(doc, key) ==
    IF ~doc.has_result THEN [raised |-> "KeyError", val |-> 0]
    ELSE IF key \in DOMAIN doc.result THEN [raised |-> "none", val |-> doc.result[key]]
    ELSE [raised |-> "KeyError", val |-> 0]

\* plausible slip: the optional field read as a required one
StandardErrorRequired(doc) ==
    IF "standardError" \in DOMAIN doc.result
    THEN [raised |-> "none", val |-> doc.result["standardError"]]
    ELSE [raised |-> "KeyError", val |-> 0]

\* lines 132, 177: float(response["result"].get("standardError", 0.0))
StandardError(doc) ==
    IF "standardError" \in DOMAIN doc.result
    THEN [raised |-> "none", val |-> doc.result["standardError"]]
    ELSE [raised |-> "none", val |-> 0]

----------------------------------------------------------------------------
(* main *)

Prices == {1, 2}

\* a downloaded row: its close, and whether dropna() drops it
Rows == [close : Prices, na : {FALSE}] \cup [close : {1}, na : {TRUE}]

RECURSIVE SeqsUpTo(_, _)
SeqsUpTo(S, n) ==
    IF n = 0 THEN {<<>>}
    ELSE LET shorter == SeqsUpTo(S, n - 1)
         IN  shorter \cup {Append(q, x) : q \in {t \in shorter : Len(t) = n - 1}, x \in S}

NoCall == [command |-> "none", binary_exists |-> TRUE, returncode |-> 0,
           stdout |-> NoText, stderr |-> NoText, started |-> FALSE,
           parsed |-> FALSE, raised |-> "none", message |-> NoText]
NoError == [type |-> "none", message |-> NoText]
NoPayload == [paths |-> 0, seed |-> 0]

\* lines 38-52: the parsed command line.  strike is <<>> for None.
Arguments ==
    [paths : {1, 1000}, stress_runs : 0..MaxRuns, strike : {<<>>, <<1>>},
     maturity : {1}, rate : {Ratio(2, 100)}, dividend : {Ratio(1, 100)},
     notional : {1}, percentile : {Ratio(99, 100)}]

Init ==
    /\ pc = "download"
    /\ args \in Arguments
    /\ market \in SeqsUpTo(Rows, MaxRows)
    /\ history = <<>>
    /\ spot = 0
    /\ strike = 0
    /\ mu = Unset
    /\ sigma = Unset
    /\ option_payload = NoPayload
    /\ calls = <<>>
    /\ parses = 0
    /\ last = NoCall
    /\ mc = [price |-> Unset, std_err |-> Unset, analytic |-> Unset,
             diff |-> Unset, rel_err |-> Unset]
    /\ vr = [simulated |-> Unset, empirical |-> Unset, rel_gap |-> Unset]
    /\ sweep = <<>>
    /\ i = 0
    /\ sections = <<>>
    /\ err = NoError
    /\ fin = <<>>
    /\ fout = <<>>

\* an uncaught exception ends main() and the run
Raise(type, message) ==
    /\ pc' = "failed"
    /\ err' = [type |-> type, message |-> message]

\* the bookkeeping of one run_risk_sim call
Called(command, binary_exists, proc, r) ==
    /\ last' = [command |-> command, binary_exists |-> binary_exists,
                returncode |-> IF r.started THEN proc.returncode ELSE 0,
                stdout |-> IF r.started THEN proc.stdout ELSE NoText,
                stderr |-> IF r.started THEN proc.stderr ELSE NoText,
                started |-> r.started, parsed |-> r.parsed,
                raised |-> r.raised, message |-> r.message]
    /\ calls' = IF r.started THEN Append(calls, r.cli) ELSE calls
    /\ parses' = IF r.parsed THEN parses + 1 ELSE parses

\* lines 104, 55-69: download_history
DownloadHistory ==
    /\ pc = "download"
    /\ IF market = <<>>
       THEN /\ Raise("SystemExit", <<"No historical data returned">>)
            /\ UNCHANGED history
       ELSE /\ history' = [j \in 1..Len(SelectSeq(market, LAMBDA row : ~row.na)) |->
                               SelectSeq(market, LAMBDA row : ~row.na)[j].close]
            /\ pc' = "stats"
            /\ UNCHANGED err
    /\ UNCHANGED <<args, market, spot, strike, mu, sigma, option_payload, calls,
                   parses, last, mc, vr, sweep, i, sections, fin, fout>>

\* lines 115-129
OptionPayload(spot_, strike_, sigma_) ==
    [spot |-> spot_, strike |-> strike_, rate |-> args.rate,
     dividend |-> args.dividend, vol |-> sigma_, maturity |-> args.maturity,
     steps |-> Steps, paths |-> args.paths, seed |-> OptionSeed,
     antithetic |-> "true", control |-> "true", block |-> Block, type |-> "call"]

\* lines 105-129: the data summary and the base option request.
\* history["close"].iloc[-1] raises IndexError on an empty history.
Statistics ==
    /\ pc = "stats"
    /\ IF history = <<>>
       THEN /\ Raise("IndexError", <<"single positional indexer is out-of-bounds">>)
            /\ UNCHANGED <<spot, strike, mu, sigma, option_payload, sections>>
       ELSE LET spot_ == history[Len(history)]
                strike_ == IF args.strike # <<>> THEN args.strike[1] ELSE spot_
                stats == realised_statistics(history)
            IN  /\ spot' = spot_
                /\ strike' = strike_
                /\ mu' = stats.mu
                /\ sigma' = stats.sigma
                /\ sections' = Append(sections, "data")
                /\ option_payload' = OptionPayload(spot_, strike_, stats.sigma)
                /\ pc' = "option"
                /\ UNCHANGED err
    /\ UNCHANGED <<args, market, history, calls, parses, last, mc, vr, sweep, i,
                   fin, fout>>

\* lines 130-140: the option pricing check
OptionCheck ==
    /\ pc = "option"
    /\ \E binary_exists \in BOOLEAN, proc \in ProcResults, closed \in ClosedFormValues :
        LET r == run_risk_sim(binary_exists, "option", option_payload, proc)
            price == RequiredField(r.doc, "price")
            std_err == StandardError(r.doc)
            analytic == black_scholes_price(spot, strike, args.rate, args.dividend,
                                            sigma, args.maturity, TRUE, closed)
            diff == FSub(Num(price.val), analytic)
            rel_err == RelErr(diff, analytic)
        IN  /\ Called("option", binary_exists, proc, r)
            /\ IF r.raised # "none" THEN
                    Raise(r.raised, r.message) /\ UNCHANGED <<mc, sections>>
               ELSE IF price.raised # "none" THEN
                    Raise(price.raised, <<"price">>) /\ UNCHANGED <<mc, sections>>
               ELSE IF std_err.raised # "none" THEN
                    Raise(std_err.raised, <<"standardError">>) /\ UNCHANGED <<mc, sections>>
               ELSE IF analytic.k = "fault" THEN
                    /\ Raise(IF strike = 0 THEN "ZeroDivisionError" ELSE "ValueError",
                             <<"black_scholes_price">>)
                    /\ UNCHANGED <<mc, sections>>
               ELSE IF rel_err.k = "fault" THEN
                    Raise("ZeroDivisionError", <<"rel_err">>) /\ UNCHANGED <<mc, sections>>
               ELSE /\ mc' = [price |-> Num(price.val), std_err |-> Num(std_err.val),
                              analytic |-> analytic, diff |-> diff, rel_err |-> rel_err]
                    /\ sections' = Append(sections, "option")
                    /\ pc' = "var"
                    /\ UNCHANGED err
    /\ UNCHANGED <<args, market, history, spot, strike, mu, sigma, option_payload,
                   vr, sweep, i, fin, fout>>

\* lines 142-143: the realised losses, -notional * return
Losses(close) ==
    LET returns == LogReturns(close)
    IN  [j \in 1..Len(returns) |-> (0 - args.notional) * returns[j]]

\* lines 144-157
VarPayload ==
    [spot |-> spot, rate |-> args.rate, vol |-> sigma, maturity |-> 1,
     steps |-> Steps, paths |-> args.paths, seed |-> VarSeed,
     antithetic |-> "true", control |-> "false", block |-> Block,
     percentile |-> args.percentile, notional |-> args.notional]

\* lines 142-166: the value-at-risk check
VarCheck ==
    /\ pc = "var"
    /\ \E binary_exists \in BOOLEAN, proc \in ProcResults :
        LET r == run_risk_sim(binary_exists, "var", VarPayload, proc)
            simulated == RequiredField(r.doc, "valueAtRisk")
            cmp == compare_var(Losses(history), args.percentile, Num(simulated.val))
        IN  /\ Called("var", binary_exists, proc, r)
            /\ IF r.raised # "none" THEN
                    Raise(r.raised, r.message) /\ UNCHANGED <<vr, sections>>
               ELSE IF simulated.raised # "none" THEN
                    Raise(simulated.raised, <<"valueAtRisk">>) /\ UNCHANGED <<vr, sections>>
               ELSE IF cmp.empirical_var.k = "fault" THEN
                    Raise("ValueError", <<"quantile">>) /\ UNCHANGED <<vr, sections>>
               ELSE IF cmp.rel.k = "fault" THEN
                    Raise("ZeroDivisionError", <<"rel">>) /\ UNCHANGED <<vr, sections>>
               ELSE /\ vr' = [simulated |-> Num(simulated.val),
                              empirical |-> cmp.empirical_var, rel_gap |-> cmp.rel]
                    /\ sections' = Append(sections, "var")
                    /\ pc' = "sweep"
                    /\ UNCHANGED err
    /\ UNCHANGED <<args, market, history, spot, strike, mu, sigma, option_payload,
                   mc, sweep, i, fin, fout>>

\* plausible slip: the sample count scaled by the loop index itself
SweepPathsFromZero(base_paths, k) == base_paths * k

\* line 171: args.paths * (i + 1)
SweepPaths(base_paths, k) == base_paths * (k + 1)

\* plausible slip: the seed varied from the base request's own seed
SweepSeedOfRequest(payload, k) == payload.seed + k

\* line 174: 100 + i
SweepSeed(payload, k) == SweepBaseSeed + k

\* lines 168-178: one iteration of the convergence sweep
SweepIteration ==
    /\ pc = "sweep"
    /\ i < args.stress_runs
    /\ \E binary_exists \in BOOLEAN, proc \in ProcResults :
        LET paths == SweepPaths(args.paths, i)
            sweep_payload == [option_payload EXCEPT !.paths = paths,
                                                    !.seed = SweepSeed(option_payload, i)]
            r == run_risk_sim(binary_exists, "option", sweep_payload, proc)
            price == RequiredField(r.doc, "price")
            stderr == StandardError(r.doc)
        IN  /\ Called("option", binary_exists, proc, r)
            /\ IF r.raised # "none" THEN
                    Raise(r.raised, r.message) /\ UNCHANGED <<sweep, i>>
               ELSE IF price.raised # "none" THEN
                    Raise(price.raised, <<"price">>) /\ UNCHANGED <<sweep, i>>
               ELSE IF stderr.raised # "none" THEN
                    Raise(stderr.raised, <<"standardError">>) /\ UNCHANGED <<sweep, i>>
               ELSE /\ sweep' = Append(sweep, [iteration |-> i, paths |-> paths,
                                               price |-> price.val,
                                               stderr |-> stderr.val])
                    /\ i' = i + 1
                    /\ UNCHANGED <<pc, err>>
    /\ UNCHANGED <<args, market, history, spot, strike, mu, sigma, option_payload,
                   mc, vr, sections, fin, fout>>

\* line 180: the loop is over (or was never entered) and the run completes
Complete ==
    /\ pc = "sweep"
    /\ i >= args.stress_runs
    /\ sections' = Append(sections, "complete")
    /\ pc' = "done"
    /\ UNCHANGED <<args, market, history, spot, strike, mu, sigma, option_payload,
                   calls, parses, last, mc, vr, sweep, i, err, fin, fout>>

Next ==
    \/ DownloadHistory
    \/ Statistics
    \/ OptionCheck
    \/ VarCheck
    \/ SweepIteration
    \/ Complete

Spec == Init /\ [][Next]_vars

----------------------------------------------------------------------------
(* compare_var applied to loss samples and percentiles drawn directly *)

LossValues == {-50, -20, 0, 30, 100}
Percentiles == {Ratio(1, 5), Ratio(1, 2), Ratio(4, 5), Ratio(99, 100),
                Ratio(1, 1), Ratio(3, 2)}

\* the variables of main() while a function is examined on its own
MainIdle ==
    /\ args = [paths |-> 1, stress_runs |-> 0, strike |-> <<>>, maturity |-> 1,
               rate |-> Ratio(2, 100), dividend |-> Ratio(1, 100), notional |-> 1,
               percentile |-> Ratio(99, 100)]
    /\ market = <<>>
    /\ history = <<>>
    /\ spot = 0
    /\ strike = 0
    /\ mu = Unset
    /\ sigma = Unset
    /\ option_payload = NoPayload
    /\ calls = <<>>
    /\ parses = 0
    /\ last = NoCall
    /\ mc = [price |-> Unset, std_err |-> Unset, analytic |-> Unset,
             diff |-> Unset, rel_err |-> Unset]
    /\ vr = [simulated |-> Unset, empirical |-> Unset, rel_gap |-> Unset]
    /\ sweep = <<>>
    /\ i = 0
    /\ sections = <<>>
    /\ err = NoError

idleVars == <<args, market, history, spot, strike, mu, sigma, option_payload,
              calls, parses, last, mc, vr, sweep, i, sections, err>>

InitVaR ==
    /\ MainIdle
    /\ pc = "call"
    /\ fin \in [losses : SeqsUpTo(LossValues, MaxSample), percentile : Percentiles,
                simulated : {Num(0), Num(30)}]
    /\ fout = [empirical_var |-> Unset, rel |-> Unset]

CompareVar ==
    /\ pc = "call"
    /\ fout' = compare_var(fin.losses, fin.percentile, fin.simulated)
    /\ pc' = "return"
    /\ UNCHANGED <<fin, idleVars>>

NextVaR == CompareVar

SpecVaR == InitVaR /\ [][NextVaR]_vars

----------------------------------------------------------------------------
(* black_scholes_price applied to market parameters drawn directly *)

InitBS ==
    /\ MainIdle
    /\ pc = "call"
    /\ fin \in [spot : 0..2, strike : 0..2, rate : {Ratio(0, 100), Ratio(2, 100)},
                dividend : {Ratio(0, 100), Ratio(1, 100)},
                vol : {Num(-1), Num(0), Num(1), NaN}, maturity : {-1, 0, 1},
                is_call : BOOLEAN]
    /\ fout = Unset

BlackScholes ==
    /\ pc = "call"
    /\ \E closed \in ClosedFormValues :
        fout' = black_scholes_price(fin.spot, fin.strike, fin.rate, fin.dividend,
                                    fin.vol, fin.maturity, fin.is_call, closed)
    /\ pc' = "return"
    /\ UNCHANGED <<fin, idleVars>>

NextBS == BlackScholes

SpecBS == InitBS /\ [][NextBS]_vars

----------------------------------------------------------------------------
(* Properties *)

Printed(section) == \E j \in 1..Len(sections) : sections[j] = section

\* the last run_risk_sim call was made by the convergence sweep
LastCallInSweep == Printed("var") /\ last.command = "option"

\* the calls that returned a result before the call that ended the run
CallsCompleted == (Len(sections) - 1) + Len(sweep)

Occurrences(text, token) == Cardinality({j \in 1..Len(text) : text[j] = token})

\* C1 as amended: the sweep starts one `option` process per iteration, in
\* order; invocation number i (from 0) carries paths = P * (i + 1) and
\* seed = 100 + i, whatever the seed of the base request; a run that completes
\* has started exactly N of them.
C1_SweepRequests ==
    /\ Len(calls) <= 2 + args.stress_runs
    /\ \A j \in 3..Len(calls) :
        /\ calls[j].command = "option"
        /\ calls[j].args.paths = args.paths * (j - 2)
        /\ calls[j].args.seed = 100 + (j - 3)
    /\ pc = "done" => Len(calls) = 2 + args.stress_runs

C1_Witness ==
    /\ pc = "done"
    /\ args.stress_runs = 3
    /\ args.paths = 1000
    /\ Len(calls) = 5
    /\ <<calls[3].args.paths, calls[4].args.paths, calls[5].args.paths>>
         = <<1000, 2000, 3000>>
    /\ <<calls[3].args.seed, calls[4].args.seed, calls[5].args.seed>>
         = <<100, 101, 102>>

\* C1 as stated, with the base seed B read as the seed of the base option
\* request: invocation number i carries seed = B + i.
C1_SeedFromBaseRequest ==
    \A j \in 3..Len(calls) :
        /\ calls[j].args.paths = args.paths * (j - 2)
        /\ calls[j].args.seed = calls[1].args.seed + (j - 3)

\* C2: when the engine process of sweep iteration k exits with a failure, the
\* run is failed, no point is reported for iteration k, no further process is
\* started and the run never completes: a failed run takes no further step.
\* The same holds of a sweep iteration that fails in any other way.
C2_SweepAborts ==
    /\ [](LastCallInSweep /\ last.started /\ last.returncode # 0
            => /\ pc = "failed"
               /\ Len(sweep) = i
               /\ Len(calls) = 3 + i
               /\ ~Printed("complete"))
    /\ [](LastCallInSweep /\ pc = "failed"
            => Len(sweep) = i /\ Len(calls) <= 3 + i /\ ~Printed("complete"))
    /\ [][pc # "failed"]_vars

C2_Witness ==
    /\ LastCallInSweep
    /\ last.returncode # 0
    /\ pc = "failed"
    /\ i = 1
    /\ i + 1 < args.stress_runs

\* C3: a non-zero exit status ends the call with RuntimeError whose message
\* contains the captured error stream; the output is not parsed, and exactly
\* one process was started for the call.
C3_NonZeroExit ==
    last.started /\ last.returncode # 0
        => /\ pc = "failed"
           /\ err.type = "RuntimeError"
           /\ last.raised = "RuntimeError"
           /\ Contains(err.message, last.stderr)
           /\ ~last.parsed
           /\ parses = CallsCompleted
           /\ Len(calls) = CallsCompleted + 1

C3_Witness ==
    /\ pc = "failed"
    /\ last.returncode = 1
    /\ last.stderr = Boom
    /\ last.stdout = JPrice
    /\ Contains(err.message, Boom)

\* C4: a call that finds the executable missing ends the run with SystemExit
\* (binary not found) and starts no process; every process that was started was
\* started after the executable was found.
C4_BinaryMissing ==
    /\ last.command # "none" /\ ~last.binary_exists
        => /\ pc = "failed"
           /\ err.type = "SystemExit"
           /\ err.message = <<"risk_sim binary not found">>
           /\ ~last.started
           /\ Len(calls) = CallsCompleted
    /\ last.started => last.binary_exists

C4_Witness ==
    /\ pc = "failed"
    /\ ~last.binary_exists
    /\ LastCallInSweep
    /\ Len(calls) = 3

\* the text is no JSON document: it is empty or its braces do not pair up
Unparseable(text) ==
    Len(text) = 0 \/ Occurrences(text, "{") # Occurrences(text, "}")

RequiredOf(command) == IF command = "var" THEN "valueAtRisk" ELSE "price"

\* C5: after exit status 0, output that is no document, or a document without
\* the operation's required field, ends the run with a parse or lookup error
\* (JSONDecodeError, KeyError), never with the RuntimeError of a failed process.
C5_ProtocolError ==
    /\ last.started /\ last.returncode = 0
       /\ (Unparseable(last.stdout)
           \/ Occurrences(last.stdout, RequiredOf(last.command)) = 0)
        => /\ pc = "failed"
           /\ err.type \in {"JSONDecodeError", "KeyError"}
           /\ err.type # "RuntimeError"
    /\ last.started /\ last.returncode = 0 /\ Unparseable(last.stdout)
        => err.type = "JSONDecodeError"

C5_Witness ==
    /\ pc = "failed"
    /\ last.command = "var"
    /\ last.returncode = 0
    /\ last.stdout = JPrice
    /\ err.type = "KeyError"

\* C6: the estimator returns drift and volatility only for a series of at
\* least two points.
C6_InsufficientData ==
    Printed("data") => Len(history) >= 2

\* the smallest integer at or above (n - 1) * p
RankUp(n, p) ==
    CHOOSE k \in 0..n : k * p.d >= (n - 1) * p.n /\ (k - 1) * p.d < (n - 1) * p.n

Below(sample, v) == Cardinality({j \in 1..Len(sample) : sample[j] < v})
AtOrBelow(sample, v) == Cardinality({j \in 1..Len(sample) : sample[j] <= v})

\* C7: for a non-empty sample and 0 < p < 1 the empirical VaR is a value of
\* the sample, and it is the order statistic at rank (n - 1) * p rounded up: at
\* most that many sample values lie below it and more than that many lie at
\* or below it.
C7_QuantileIsMember ==
    pc = "return" /\ Len(fin.losses) > 0
    /\ 0 < fin.percentile.n /\ fin.percentile.n < fin.percentile.d
        => /\ IsNum(fout.empirical_var)
           /\ fout.empirical_var.d = 1
           /\ \E j \in 1..Len(fin.losses) : fin.losses[j] = fout.empirical_var.n
           /\ Below(fin.losses, fout.empirical_var.n)
                <= RankUp(Len(fin.losses), fin.percentile)
           /\ AtOrBelow(fin.losses, fout.empirical_var.n)
                > RankUp(Len(fin.losses), fin.percentile)

C7_Witness ==
    /\ pc = "return"
    /\ fin.losses = <<30, -50, 100, 0, -20>>
    /\ fin.percentile = Ratio(4, 5)
    /\ fout.empirical_var = Num(100)

\* C8: an empty loss sample gives not-a-number for the empirical VaR and the
\* gap; an empirical VaR of zero gives an infinite gap; an analytic price of
\* zero gives an infinite relative error; the step is reported in each case,
\* and no run ends with a division fault.
C8_EdgeCasesNotTerminal ==
    /\ Printed("var") /\ Len(history) <= 1
        => IsNaN(vr.empirical) /\ IsNaN(vr.rel_gap)
    /\ Printed("var") /\ IsZero(vr.empirical) => vr.rel_gap = Inf
    /\ Printed("option") /\ IsZero(mc.analytic) => mc.rel_err = Inf
    /\ last.command = "var" /\ last.raised = "none"
       /\ Occurrences(last.stdout, "valueAtRisk") > 0 => pc # "failed"
    /\ last.command = "option" /\ last.raised = "none"
       /\ Occurrences(last.stdout, "price") > 0 => pc # "failed"
    /\ err.type # "ZeroDivisionError"

C8_Witness ==
    /\ pc = "done"
    /\ IsZero(mc.analytic)
    /\ mc.rel_err = Inf
    /\ IsZero(vr.empirical)
    /\ vr.rel_gap = Inf
    /\ Len(sweep) > 0

\* C9: an option response with a price and no standardError is reported with
\* a standard error of 0 and does not fail the step, in the option check and
\* in every sweep iteration.
C9_StandardErrorDefault ==
    last.command = "option" /\ last.started /\ last.returncode = 0
    /\ ~Unparseable(last.stdout)
    /\ Occurrences(last.stdout, "price") > 0
    /\ Occurrences(last.stdout, "standardError") = 0
        => /\ pc # "failed"
           /\ IF LastCallInSweep
              THEN /\ Len(sweep) = i
                   /\ i > 0
                   /\ sweep[i].iteration = i - 1
                   /\ sweep[i].stderr = 0
              ELSE /\ Printed("option")
                   /\ mc.std_err = Num(0)

C9_Witness ==
    /\ LastCallInSweep
    /\ last.stdout = JPrice
    /\ i = 2
    /\ sweep[2].stderr = 0
    /\ sweep[1].stderr = 1
    /\ mc.std_err = Num(0)

\* C10: with maturity <= 0 or volatility <= 0 the price is the intrinsic
\* value, max(0, spot - strike) for a call and max(0, strike - spot) for a
\* put, whatever the rate and the dividend yield, and is never negative.
C10_IntrinsicValue ==
    pc = "return"
    /\ (fin.maturity <= 0 \/ (fin.vol.k = "num" /\ fin.vol.n <= 0))
        => /\ IsNum(fout)
           /\ fout.d = 1
           /\ fout.n >= 0
           /\ fout.n >= (IF fin.is_call THEN fin.spot - fin.strike
                         ELSE fin.strike - fin.spot)
           /\ \/ fout.n = 0
              \/ fout.n = (IF fin.is_call THEN fin.spot - fin.strike
                           ELSE fin.strike - fin.spot)

C10_Witness ==
    /\ pc = "return"
    /\ fin.maturity = 1
    /\ fin.vol = Num(0)
    /\ fin.rate = Ratio(2, 100)
    /\ fin.dividend = Ratio(1, 100)
    /\ ~fin.is_call
    /\ fin.spot = 0
    /\ fin.strike = 2
    /\ fout = Num(2)

====
